---------------------------- MODULE Spec2Model ----------------------------
(***************************************************************************)
(* Model of the LiP-LLM planning pipeline (main.py, src/skill_generator.py,*)
(* src/graph_generator.py, src/task_allocator.py).                         *)
(*                                                                         *)
(* One run of main_planner is a sequential program with these positions:   *)
(*   "skills" : generate_skill_list is asking the skill-choice oracle      *)
(*   "graph"  : generate_dependency_graph is asking the dependency oracle  *)
(*   "loop"   : head of the while loop of main_planner                     *)
(*   "alloc"  : body of the loop after the frontier was computed           *)
(*   "end"    : main_planner has returned                                  *)
(* The oracles (Gemini), the random distances and the LP solver (HiGHS)    *)
(* are the environment: their answers are chosen with \E.                  *)
(***************************************************************************)
EXTENDS Integers, Sequences, FiniteSets

\* ------------------------------------------------------------- bounds
\* longest robot list given to main_planner
MaxRobots == 2
\* most "N -> M" lines in one oracle response
MaxProposals == 2
\* weights 1/(distance + 1e-6) are abstracted to the levels 1..MaxWeight
MaxWeight == 2

\* ------------------------------------------------- program constants
\* for attempt in range(3)
MaxAttempts == 3

\* ---------------------------------------------------------- skills
Done == <<"done", "">>
None == <<"None", "">>
Invalid == <<"invalid", "">>

\* get_skill_set: the pick_and_place(obj, loc) skills (two of the 30 are
\* kept), transport(table) and done.  A skill is <<tag, arguments>>: the tag
\* is the part of the identifier the capability check looks for.
get_skill_set ==
    {<<"pick_and_place", "blue block, middle of the table">>,
     <<"pick_and_place", "red block, blue block">>,
     <<"transport", "table">>,
     Done}

RobotTypes == {"arm_robot", "mobile_robot"}

\* the step counter is only printed; it is kept up to MaxStep, one more than
\* the longest skill list, and saturates there
MaxStep == Cardinality(get_skill_set)

VARIABLES
    pc,                \* position of main_planner
    robots,            \* the robots argument: sequence of robot types (name = index);
                       \* <<>> until the Driver loop, its only reader, is entered
    skill_list,        \* generated_skills / skill_list
    remaining_skills,  \* candidates still offered to the skill-choice oracle
    attempt,           \* oracle requests made by generate_dependency_graph
    response,          \* the oracle response of the attempt on which
                       \* generate_dependency_graph returned (NoResponse before)
    graph,             \* the graph of the last attempt, then the Driver's graph
    accepted,          \* history: the graph as returned by the Builder
    step_counter,      \* rounds started
    executable_skills, \* frontier of the current round
    weights,           \* weight matrix of the last solve (<<>> when none)
    assignments,       \* assignments of the last solve: robot index -> skill
    lp_success,        \* result.success of the last solve
    completed_log,     \* history: the "Completed Tasks" printed, one set per round
    outcome,           \* the final message printed
    no_executable,     \* "Error: No executable skills found" was printed
    lp_fault,          \* whether the LP solver may report failure in this run
    choose_calls       \* history: calls of choose_best_skill made so far

vars == <<pc, robots, skill_list, remaining_skills, attempt, response, graph,
          accepted, step_counter, executable_skills, weights, assignments,
          lp_success, completed_log, outcome, no_executable, lp_fault, choose_calls>>

\* ---------------------------------------------------------- helpers
\* f[0] + ... + f[n - 1]
RECURSIVE SumTo(_, _)
SumTo(f, n) == IF n <= 0 THEN 0 ELSE f[n - 1] + SumTo(f, n - 1)

Range(s) == {s[i] : i \in DOMAIN s}

SeqsUpTo(S, n) == UNION {[1..k -> S] : k \in 0..n}

EmptyGraph == [nodes |-> {}, edges |-> {}]
NoResponse == [kind |-> "none", section |-> FALSE, pairs |-> {}]
NoAssignment == <<>>


\* ------------------------------------------- src/skill_generator.py
OracleError == <<"error", "">>

\* what model.generate_content may give for a skill choice: any skill text,
\* a text that is no skill, or an exception
SkillReplies == get_skill_set \cup {Invalid, OracleError}

\* faulty variant of choose_best_skill: the reply is validated against the
\* whole skill set, not against the candidates that remain
choose_any_known_skill(reply, skill_set) ==
    IF reply = OracleError THEN None
    ELSE IF reply \in get_skill_set THEN reply
    ELSE None

\* choose_best_skill: the reply if it is one of the candidates, else None
choose_best_skill(reply, skill_set) ==
    IF reply = OracleError THEN None
    ELSE IF reply \in skill_set THEN reply
    ELSE None

\* main.py line 17: if not skill_list
skill_list_is_empty(list) == Len(list) = 0

\* one iteration of the while loop of generate_skill_list; when the loop
\* breaks, generate_skill_list returns and main_planner checks the list
ChooseSkill ==
    /\ pc = "skills"
    /\ choose_calls' = choose_calls + 1
    /\ \E reply \in SkillReplies :
         LET best_skill == choose_best_skill(reply, remaining_skills) IN
         IF best_skill = None \/ best_skill = Done
         THEN /\ IF skill_list_is_empty(skill_list)
                 THEN pc' = "end" /\ outcome' = "no_skill_list"
                 ELSE pc' = "graph" /\ outcome' = outcome
              /\ UNCHANGED <<skill_list, remaining_skills>>
         ELSE /\ skill_list' = Append(skill_list, best_skill)
              /\ remaining_skills' = remaining_skills \ {best_skill}
              /\ UNCHANGED <<pc, outcome>>
    /\ UNCHANGED <<robots, attempt, response, graph, accepted, step_counter,
                   executable_skills, weights, assignments, lp_success,
                   completed_log, no_executable, lp_fault>>

\* ------------------------------------------- src/graph_generator.py
\* the indices an "N -> M" line can carry: 0, the valid 1..n, and n+1 for
\* every index beyond the list
Indices(n) == 0..(n + 1)

ProposalSets(n) ==
    {Range(q) : q \in SeqsUpTo(Indices(n) \X Indices(n), MaxProposals)}

\* a text without the section: no arrow at all, or one arrow somewhere
StrayProposals(n) == {{}} \cup {{p} : p \in Indices(n) \X Indices(n)}

\* a response: an exception, or a text with or without a "Dependencies:"
\* section and the index pairs its "N -> M" lines carry
Responses(n) ==
    {[kind |-> "error", section |-> FALSE, pairs |-> {}]} \cup
    {[kind |-> "text", section |-> TRUE, pairs |-> P] : P \in ProposalSets(n)} \cup
    {[kind |-> "text", section |-> FALSE, pairs |-> P] : P \in StrayProposals(n)}

\* Python's list[k] for -len <= k < len
PyIndex(list, k) == IF k < 0 THEN list[Len(list) + k + 1] ELSE list[k + 1]

\* list[k] raises IndexError
IndexError(list, k) == k >= Len(list) \/ k < 0 - Len(list)

\* parse_dependencies raises (skill_list[int(idx) - 1] out of range)
parse_raises(resp, list) ==
    /\ resp.section
    /\ \E p \in resp.pairs : IndexError(list, p[1] - 1) \/ IndexError(list, p[2] - 1)

\* parse_dependencies: the edges of the "Dependencies:" section
parse_dependencies(resp, list) ==
    IF resp.section
    THEN {<<PyIndex(list, p[1] - 1), PyIndex(list, p[2] - 1)>> : p \in resp.pairs}
    ELSE {}

\* nodes with in-degree 0 among a node set
ZeroInDegree(nodes, edges) ==
    {n \in nodes : ~ \E e \in edges : e[2] = n /\ e[1] \in nodes}

\* nx.is_directed_acyclic_graph: topological generations consume every node
RECURSIVE KahnLeft(_, _)
KahnLeft(nodes, edges) ==
    LET zero == ZeroInDegree(nodes, edges) IN
    IF zero = {} THEN nodes ELSE KahnLeft(nodes \ zero, edges)

\* faulty variant of is_directed_acyclic_graph: the cycle check left out
accept_any_graph(g) == TRUE

is_directed_acyclic_graph(g) == KahnLeft(g.nodes, g.edges) = {}

\* faulty variant of attempt_graph: add_nodes_from left out, so that only
\* the skills an edge touches become nodes
attempt_graph_edges_only(prev, list, resp) ==
    [nodes |-> {e[1] : e \in parse_dependencies(resp, list)} \cup
               {e[2] : e \in parse_dependencies(resp, list)},
     edges |-> parse_dependencies(resp, list)]

\* lines 71-75: a fresh DiGraph with all skills and the parsed edges
attempt_graph(prev, list, resp) ==
    [nodes |-> Range(list), edges |-> parse_dependencies(resp, list)]

\* lines 86 and 89: what the Builder returns when it gives up
fallback_graph(list) == EmptyGraph

\* faulty variant of graph_is_unusable: main_planner goes on whatever the
\* Builder returned
graph_never_unusable(g) == FALSE

\* main.py line 27: if not graph.nodes()
graph_is_unusable(g) == g.nodes = {}

\* the robots argument of main_planner: a non-empty list of robots with
\* distinct names (their indices)
RobotLists == SeqsUpTo(RobotTypes, MaxRobots) \ {<<>>}

\* generate_dependency_graph has returned g: main_planner lines 26-30
BuilderReturns(g) ==
    /\ graph' = g
    /\ IF graph_is_unusable(g)
       THEN pc' = "end" /\ outcome' = "no_graph" /\ accepted' = accepted
       ELSE pc' = "loop" /\ outcome' = outcome /\ accepted' = g

\* one iteration of "for attempt in range(3)"
RequestDependencies ==
    /\ pc = "graph"
    /\ attempt < MaxAttempts
    /\ \E resp \in Responses(Len(skill_list)) :
         /\ attempt' = attempt + 1
         /\ IF resp.kind = "error" \/ parse_raises(resp, skill_list)
            THEN BuilderReturns(fallback_graph(skill_list)) /\ response' = resp
            ELSE LET g == attempt_graph(graph, skill_list, resp) IN
                 IF is_directed_acyclic_graph(g)
                 THEN BuilderReturns(g) /\ response' = resp
                 ELSE IF attempt + 1 = MaxAttempts
                      THEN BuilderReturns(fallback_graph(skill_list)) /\ response' = resp
                      ELSE /\ graph' = g
                           /\ UNCHANGED <<pc, outcome, accepted, response>>
    /\ UNCHANGED <<robots, skill_list, remaining_skills, step_counter,
                   executable_skills, weights, assignments, lp_success,
                   completed_log, no_executable, lp_fault, choose_calls>>

\* ------------------------------------------- src/task_allocator.py
in_degree(g, n) == Cardinality({e \in g.edges : e[2] = n})

\* faulty variant of get_executable_skills: the in-degree test left out
get_all_skills(g) == SelectSeq(skill_list, LAMBDA n : n \in g.nodes)

\* faulty variant of get_executable_skills: graph.out_degree() instead of
\* graph.in_degree()
get_sink_skills(g) ==
    SelectSeq(skill_list,
              LAMBDA n : n \in g.nodes /\ ~ \E e \in g.edges : e[1] = n)

\* get_executable_skills: the nodes with in-degree 0, in the graph's node
\* order (the order of skill_list, from add_nodes_from)
get_executable_skills(g) ==
    SelectSeq(skill_list, LAMBDA n : n \in g.nodes /\ in_degree(g, n) = 0)

\* faulty variant of can_perform: the skill is not looked at
can_perform_any_skill(type, skill) ==
    type = "arm_robot" \/ type = "mobile_robot"

\* lines 35-38: the capability check of calculate_weights
can_perform(type, skill) ==
    \/ type = "arm_robot" /\ skill[1] = "pick_and_place"
    \/ type = "mobile_robot" /\ skill[1] = "transport"

\* 1.0 / (np.random.rand() + 1e-6): some positive level
random_weight == 1..MaxWeight

\* calculate_weights: every matrix the random draws can give
calculate_weights(rbts, skills) ==
    LET capable == {p \in (1..Len(rbts)) \X (1..Len(skills)) :
                        can_perform(rbts[p[1]], skills[p[2]])}
    IN {[r \in 1..Len(rbts) |->
            [s \in 1..Len(skills) |->
                IF <<r, s>> \in capable THEN weight[<<r, s>>] ELSE 0]] :
        weight \in [capable -> random_weight]}

\* faulty variant of objective: the weights not negated, so that linprog
\* minimizes the total weight
objective_not_negated(w, num_robots, num_skills) ==
    [i \in 0..(num_robots * num_skills - 1) |->
        w[(i \div num_skills) + 1][(i % num_skills) + 1]]

\* line 59: c = -weights.flatten(), index j * num_skills + k
objective(w, num_robots, num_skills) ==
    [i \in 0..(num_robots * num_skills - 1) |->
        0 - w[(i \div num_skills) + 1][(i % num_skills) + 1]]

\* faulty variant of skill_constraints: the per-skill rows of A_ub left out
no_skill_constraints(x, num_robots, num_skills) == TRUE

\* lines 63-67: for each skill k, sum over robots j of x[j * num_skills + k] <= 1
skill_constraints(x, num_robots, num_skills) ==
    \A k \in 0..(num_skills - 1) :
        SumTo([j \in 0..(num_robots - 1) |-> x[j * num_skills + k]], num_robots) <= 1

\* lines 71-75: for each robot j, sum over skills k of x[j * num_skills + k] <= 1
robot_constraints(x, num_robots, num_skills) ==
    \A j \in 0..(num_robots - 1) :
        SumTo([k \in 0..(num_skills - 1) |-> x[j * num_skills + k]], num_skills) <= 1

\* the vertices of {x : A_ub x <= b_ub, 0 <= x <= 1}: the polytope is
\* integral, and HiGHS returns a basic (vertex) solution
feasible_vertices(num_robots, num_skills) ==
    {x \in [0..(num_robots * num_skills - 1) -> {0, 1}] :
        /\ skill_constraints(x, num_robots, num_skills)
        /\ robot_constraints(x, num_robots, num_skills)}

dot(c, x) == SumTo([i \in DOMAIN c |-> c[i] * x[i]], Cardinality(DOMAIN c))

Minimum(S) == CHOOSE m \in S : \A n \in S : m <= n

\* linprog minimizes c.x over the polytope: any optimal vertex may come back
optimal_vertices(c, polytope) ==
    LET best == Minimum({dot(c, y) : y \in polytope}) IN
    {x \in polytope : dot(c, x) = best}

\* result.x in tenths: an optimal vertex up to the solver's tolerance tol
\* (0/1 up to rounding error)
result_x(v, tol) == [i \in DOMAIN v |-> IF v[i] = 1 THEN 10 - tol ELSE tol]

\* line 85: every result.x linprog may return for the objective c
linprog(c, polytope) ==
    {result_x(v, tol) : v \in optimal_vertices(c, polytope), tol \in {0, 1}}

\* faulty variant of np_round: truncation (astype(int)) instead of rounding
np_truncate(tenths) == IF tenths >= 10 THEN 1 ELSE 0

\* np.round of a value in tenths (0.5 rounds to the even 0)
np_round(tenths) == IF tenths > 5 THEN 1 ELSE 0

\* line 92: np.round(result.x).reshape((num_robots, num_skills))
assignment_matrix(x, num_robots, num_skills) ==
    [r \in 1..num_robots |->
        [s \in 1..num_skills |-> np_round(x[(r - 1) * num_skills + (s - 1)])]]

\* lines 94-99: each robot with a 1 in its row gets the first such skill
decode(matrix, skills) ==
    LET assigned == {r \in DOMAIN matrix : \E s \in DOMAIN matrix[r] : matrix[r][s] = 1}
    IN [r \in assigned |->
           skills[Minimum({s \in DOMAIN matrix[r] : matrix[r][s] = 1})]]

\* line 87: result.success; this LP is feasible (x = 0) and bounded, so the
\* solver fails only in a run with solver faults
linprog_success == IF lp_fault THEN BOOLEAN ELSE {TRUE}

\* faulty variant of solve_task_allocation: result.success is not tested
solve_ignoring_failure(ok, x, num_robots, skills) ==
    decode(assignment_matrix(x, num_robots, Len(skills)), skills)

\* lines 87-99 of solve_task_allocation: the empty dict when the solver
\* failed, the decoded assignment otherwise
solve_task_allocation(ok, x, num_robots, skills) ==
    IF ok
    THEN decode(assignment_matrix(x, num_robots, Len(skills)), skills)
    ELSE NoAssignment

\* faulty variant of remove_nodes_from: graph.remove_node of one completed
\* task only
remove_one_node(g, ns) ==
    LET n == CHOOSE m \in ns : TRUE IN
    [nodes |-> g.nodes \ {n},
     edges |-> {e \in g.edges : e[1] # n /\ e[2] # n}]

\* faulty variant of remove_nodes_from: the edges at the removed nodes stay
remove_nodes_keep_edges(g, ns) == [nodes |-> g.nodes \ ns, edges |-> g.edges]

\* graph.remove_nodes_from: the nodes and every edge at them
remove_nodes_from(g, ns) ==
    [nodes |-> g.nodes \ ns,
     edges |-> {e \in g.edges : e[1] \notin ns /\ e[2] \notin ns}]

\* ------------------------------------------------------- main.py
number_of_nodes(g) == Cardinality(g.nodes)

NextStep(n) == IF n < MaxStep THEN n + 1 ELSE n

\* the value main_planner returns after the final message o: the bare
\* returns of lines 19 and 29, and the end of the function body (line 61)
main_planner_returns(o) ==
    CASE o = "no_skill_list" -> None
      [] o = "no_graph" -> None
      [] o = "complete" -> None

\* lines 35-45: the while test, the frontier, the break on an empty frontier
LoopHead ==
    /\ pc = "loop"
    /\ IF number_of_nodes(graph) > 0
       THEN /\ step_counter' = NextStep(step_counter)
            /\ executable_skills' = get_executable_skills(graph)
            /\ IF executable_skills' = <<>>
               THEN pc' = "end" /\ outcome' = "complete" /\ no_executable' = TRUE
               ELSE pc' = "alloc" /\ UNCHANGED <<outcome, no_executable>>
       ELSE /\ pc' = "end"
            /\ outcome' = "complete"
            /\ UNCHANGED <<step_counter, executable_skills, no_executable>>
    \* the locals of generate_dependency_graph and of the previous round are dead
    /\ response' = NoResponse
    /\ attempt' = 0
    /\ weights' = <<>>
    /\ assignments' = NoAssignment
    /\ lp_success' = TRUE
    \* robots is read first at line 48: the argument is drawn when the loop
    \* is entered
    /\ robots' \in (IF step_counter = 0 THEN RobotLists ELSE {robots})
    /\ UNCHANGED <<skill_list, remaining_skills, graph, accepted,
                   completed_log, lp_fault, choose_calls>>

\* lines 48-59: solve_task_allocation, then the graph update
Allocate ==
    /\ pc = "alloc"
    /\ LET num_robots == Len(robots)
           num_skills == Len(executable_skills)
           polytope == feasible_vertices(num_robots, num_skills)
       IN \E w \in calculate_weights(robots, executable_skills) :
          \E ok \in linprog_success :
          \E x \in linprog(objective(w, num_robots, num_skills), polytope) :
            LET result == solve_task_allocation(ok, x, num_robots, executable_skills)
                completed_tasks == Range(result)
            IN /\ weights' = w
               /\ lp_success' = ok
               /\ assignments' = result
               /\ IF completed_tasks = {}
                  THEN UNCHANGED <<graph, completed_log>>
                  ELSE /\ graph' = remove_nodes_from(graph, completed_tasks)
                       /\ completed_log' = Append(completed_log, completed_tasks)
    /\ pc' = "loop"
    /\ UNCHANGED <<robots, skill_list, remaining_skills, attempt, response, accepted,
                   step_counter, executable_skills, outcome, no_executable,
                   lp_fault, choose_calls>>

\* ------------------------------------------------- specification
InitBase ==
    /\ pc = "skills"
    /\ robots = <<>>
    /\ skill_list = <<>>
    /\ remaining_skills = get_skill_set
    /\ attempt = 0
    /\ response = NoResponse
    /\ graph = EmptyGraph
    /\ accepted = EmptyGraph
    /\ step_counter = 0
    /\ executable_skills = <<>>
    /\ weights = <<>>
    /\ assignments = NoAssignment
    /\ lp_success = TRUE
    /\ completed_log = <<>>
    /\ outcome = "running"
    /\ no_executable = FALSE
    /\ choose_calls = 0

Init == InitBase /\ lp_fault = FALSE

Next == ChooseSkill \/ RequestDependencies \/ LoopHead \/ Allocate

Spec == Init /\ [][Next]_vars

\* a run in which the LP solver may report failure
InitFault == InitBase /\ lp_fault = TRUE

FaultSpec == InitFault /\ [][Next]_vars

\* main_planner is one sequential program: it always takes its next step
FairSpec == Spec /\ WF_vars(Next)

\* ------------------------------------------------------- properties
\* a topological order of g exists: a ranking of the nodes that every edge
\* goes up
HasTopologicalOrder(g) ==
    \E rank \in [g.nodes -> 1..Cardinality(g.nodes)] :
        \A e \in g.edges : rank[e[1]] < rank[e[2]]

\* the Driver is running its loop on the graph
Scheduling == pc \in {"loop", "alloc"}

\* a solve has just happened: weights and assignments are those of this round
Solved == pc = "loop" /\ weights # <<>>

\* C1: every graph that generate_dependency_graph returned and the Driver
\* schedules has a topological order, whatever the oracle answered on the
\* (up to three) attempts.
C1_AcceptedGraphAcyclic ==
    /\ HasTopologicalOrder(accepted)
    /\ Scheduling => HasTopologicalOrder(graph)

\* C1 witness: a graph with two edges accepted on the third attempt, after
\* two rejected ones
C1_Witness ==
    /\ pc = "loop" /\ step_counter = 0
    /\ attempt = MaxAttempts
    /\ Cardinality(accepted.edges) = 2
    /\ graph = accepted

\* the round (index in the log of completed tasks) in which a skill was
\* completed, 0 when it was not
CompletedInRound(skill) ==
    IF \E i \in DOMAIN completed_log : skill \in completed_log[i]
    THEN CHOOSE i \in DOMAIN completed_log : skill \in completed_log[i]
    ELSE 0

\* C2: for every precedence edge (u, v) of the accepted graph, v is
\* completed only in a round strictly after the round in which u was
\* completed.
C2_PrecedenceRespected ==
    \A e \in accepted.edges :
        CompletedInRound(e[2]) # 0 =>
            /\ CompletedInRound(e[1]) # 0
            /\ CompletedInRound(e[1]) < CompletedInRound(e[2])

\* C2 witness: a chain u -> v -> w of the accepted graph has been completed
C2_Witness ==
    \E e \in accepted.edges : \E f \in accepted.edges :
        /\ e[2] = f[1]
        /\ CompletedInRound(f[2]) # 0

\* the column of a frontier skill in the weight matrix
SkillIndex(skill) ==
    CHOOSE s \in DOMAIN executable_skills : executable_skills[s] = skill

\* C3: the assignment returned by solve_task_allocation is a partial
\* injective mapping from the robots to the frontier skills: no skill is
\* claimed by two robots (and a robot has one skill at most).
C3_AssignmentInjective ==
    Solved =>
        /\ DOMAIN assignments \subseteq 1..Len(robots)
        /\ \A r \in DOMAIN assignments : assignments[r] \in Range(executable_skills)
        /\ \A r1 \in DOMAIN assignments : \A r2 \in DOMAIN assignments :
               r1 # r2 => assignments[r1] # assignments[r2]

\* C3 witness: two robots that can both perform both frontier skills got
\* one each
C3_Witness ==
    /\ Solved
    /\ Len(robots) = 2 /\ Len(executable_skills) = 2
    /\ \A r \in 1..2 : \A s \in 1..2 : weights[r][s] > 0
    /\ Cardinality(DOMAIN assignments) = 2

\* C4: every (robot, skill) pair of the returned assignment has weight > 0.
C4_OnlyPositivePairs ==
    Solved =>
        \A r \in DOMAIN assignments : weights[r][SkillIndex(assignments[r])] > 0

Maximum(S) == CHOOSE m \in S : \A n \in S : m >= n

\* the largest total weight of a partial matching of robots r.. with the
\* skills not yet used
RECURSIVE BestMatching(_, _, _)
BestMatching(w, r, used) ==
    IF r > Len(w) THEN 0
    ELSE Maximum({BestMatching(w, r + 1, used)} \cup
                 {w[r][s] + BestMatching(w, r + 1, used \cup {s}) :
                     s \in (DOMAIN w[r]) \ used})

RECURSIVE AssignedWeight(_)
AssignedWeight(rs) ==
    IF rs = {} THEN 0
    ELSE LET r == CHOOSE q \in rs : TRUE IN
         weights[r][SkillIndex(assignments[r])] + AssignedWeight(rs \ {r})

\* C5: the total weight of the decoded assignment is the maximum total
\* weight over all partial matchings (each robot at most one skill, each
\* skill at most one robot).
C5_AssignmentOptimal ==
    Solved => AssignedWeight(DOMAIN assignments) = BestMatching(weights, 1, {})

\* C5 witness: the weights [[2,1],[1,2]] solved as robot 1 - skill 1,
\* robot 2 - skill 2
C5_Witness ==
    /\ Solved
    /\ weights = <<<<2, 1>>, <<1, 2>>>>
    /\ DOMAIN assignments = {1, 2}
    /\ assignments[1] = executable_skills[1]
    /\ assignments[2] = executable_skills[2]

\* every robot can perform every skill of the list (and there is a robot)
FullyCompatible ==
    /\ robots # <<>>
    /\ \A r \in DOMAIN robots : \A s \in Range(skill_list) : can_perform(robots[r], s)

\* C6: with N nodes accepted and every robot compatible with every skill,
\* each round removes a node, so that after k rounds at most N - k nodes
\* are left and the loop ends, the graph empty, within N rounds.
C6_CompleteWithinN ==
    LET N == Cardinality(accepted.nodes) IN
    FullyCompatible =>
        /\ pc = "loop" => step_counter + number_of_nodes(graph) <= N
        /\ pc = "alloc" => step_counter + number_of_nodes(graph) <= N + 1
        /\ pc = "end" => /\ outcome = "complete"
                         /\ number_of_nodes(graph) = 0
                         /\ step_counter <= N

\* C6 witness: a run over two nodes that took exactly two rounds
C6_Witness ==
    /\ FullyCompatible
    /\ pc = "end" /\ outcome = "complete"
    /\ Cardinality(accepted.nodes) = 2
    /\ step_counter = 2

\* a round with a non-empty frontier and an empty assignment has just ended
StalledRound == Solved /\ executable_skills # <<>> /\ assignments = NoAssignment

\* C7: after a round with a non-empty frontier and an empty assignment the
\* Driver stops (after a bounded number of retries, or at once): it does
\* not re-run rounds forever.
C7_StalledDriverStops == StalledRound ~> (pc = "end")

\* the edges the Builder reads from a response: index i stands for the
\* i-th skill, and index 0 for the last one
ReadsAs(i) == IF i = 0 THEN skill_list[Len(skill_list)] ELSE skill_list[i]

\* C8: at most three oracle requests; a further attempt only after a cyclic
\* graph; the accepted graph has all skills as nodes and exactly the edges
\* of the accepted attempt's response.
C8_BoundedIndependentAttempts ==
    /\ attempt <= MaxAttempts
    /\ (pc = "graph" /\ attempt >= 1) =>
           /\ attempt < MaxAttempts
           /\ ~ HasTopologicalOrder(graph)
    /\ (pc = "loop" /\ step_counter = 0) =>
           /\ graph.nodes = Range(skill_list)
           /\ \A p \in response.pairs :
                  (response.section /\ p[1] \in 1..Len(skill_list)
                                    /\ p[2] \in 1..Len(skill_list))
                      => <<skill_list[p[1]], skill_list[p[2]]>> \in graph.edges
           /\ \A e \in graph.edges :
                  /\ response.section
                  /\ \E p \in response.pairs : e = <<ReadsAs(p[1]), ReadsAs(p[2])>>

\* C8 witness: a graph accepted on the third attempt, with an edge and a
\* skill that no edge touches
C8_Witness ==
    /\ pc = "loop" /\ step_counter = 0
    /\ attempt = MaxAttempts
    /\ graph.edges # {}
    /\ \E n \in graph.nodes : \A e \in graph.edges : e[1] # n /\ e[2] # n

\* the graph of the returning attempt's response
ResponseGraph ==
    [nodes |-> Range(skill_list),
     edges |-> {<<ReadsAs(p[1]), ReadsAs(p[2])>> : p \in response.pairs}]

\* the Builder gave up: the oracle raised, or the last of the three
\* attempts was cyclic too
BuilderGaveUp ==
    \/ response.kind = "error"
    \/ /\ response.kind = "text" /\ response.section
       /\ attempt = MaxAttempts
       /\ \A p \in response.pairs : p[1] <= Len(skill_list) /\ p[2] <= Len(skill_list)
       /\ ~ HasTopologicalOrder(ResponseGraph)

\* C9: when all attempts were cyclic or the oracle raised, the Builder
\* returns its failure value and the Driver aborts: no round is run and no
\* skill is reported completed.
C9_FailureAborts ==
    BuilderGaveUp =>
        /\ pc = "end" /\ outcome = "no_graph"
        /\ graph = EmptyGraph /\ accepted = EmptyGraph
        /\ step_counter = 0
        /\ completed_log = <<>>

\* C9 witness: three cyclic attempts, then the abort
C9_Witness ==
    /\ pc = "end" /\ outcome = "no_graph"
    /\ response.kind = "text" /\ attempt = MaxAttempts
    /\ BuilderGaveUp

\* C10: an oracle error is retried: the Builder fails on an error only when
\* the three attempts are used up.
C10_ErrorIsRetried ==
    (outcome = "no_graph" /\ response.kind = "error") => attempt = MaxAttempts

\* the edges proposed by the in-range index pairs of the returning response
InRangeEdges ==
    IF response.kind = "text" /\ response.section
    THEN {<<skill_list[p[1]], skill_list[p[2]]>> :
            p \in {q \in response.pairs : /\ q[1] \in 1..Len(skill_list)
                                          /\ q[2] \in 1..Len(skill_list)}}
    ELSE {}

\* C11: a proposal with an index outside 1..len(skill_list) is discarded
\* and does not make the Builder fail: the returned graph has exactly the
\* edges of the in-range proposals, and the Builder gives up on a text
\* response only after three attempts, the last cyclic by in-range edges.
C11_OutOfRangeDiscarded ==
    /\ (pc = "loop" /\ step_counter = 0) => graph.edges = InRangeEdges
    /\ (outcome = "no_graph" /\ response.kind = "text") =>
           /\ attempt = MaxAttempts
           /\ ~ HasTopologicalOrder([nodes |-> Range(skill_list),
                                     edges |-> InRangeEdges])

\* a graph without its self-loop edges
WithoutSelfLoops(g) ==
    [nodes |-> g.nodes, edges |-> {e \in g.edges : e[1] # e[2]}]

\* C12: self-loop proposals are discarded before the cycle check: an
\* attempt is rejected, and the Builder gives up on in-range proposals,
\* only for a cycle that remains when the self-loops are taken away.
C12_SelfLoopsDiscarded ==
    /\ (pc = "graph" /\ attempt > 0) =>
           ~ HasTopologicalOrder(WithoutSelfLoops(graph))
    /\ (outcome = "no_graph" /\ response.kind = "text" /\ response.section
          /\ \A p \in response.pairs :
                 p[1] <= Len(skill_list) /\ p[2] <= Len(skill_list)) =>
           ~ HasTopologicalOrder(WithoutSelfLoops(ResponseGraph))

\* C13: the Driver's outcome tells "plan complete" from "plan aborted":
\* completion is reported only when the graph has been emptied, and a run
\* that ended for another reason hands its caller a result different from
\* that of a completed run.
C13_CompleteDistinctFromAborted ==
    pc = "end" =>
        /\ outcome = "complete" => number_of_nodes(graph) = 0
        /\ outcome # "complete" =>
               main_planner_returns(outcome) # main_planner_returns("complete")

\* the nodes of g that no edge from a node of g enters
FrontierOf(g) ==
    {n \in g.nodes : \A e \in g.edges : e[2] = n => e[1] \notin g.nodes}

\* C14: in every round get_executable_skills(G) lists exactly the nodes of
\* in-degree 0 in G, each once, and the call leaves G unchanged.
C14_FrontierIsZeroInDegree ==
    [][(pc = "loop" /\ number_of_nodes(graph) > 0) =>
           /\ graph' = graph
           /\ Range(executable_skills') = FrontierOf(graph)
           /\ Len(executable_skills') = Cardinality(FrontierOf(graph))]_vars

\* C14 witness: a round whose frontier has two skills and leaves out a
\* skill that waits for one of them
C14_Witness ==
    /\ pc = "alloc"
    /\ Len(executable_skills) = 2
    /\ \E e \in graph.edges : e[1] \in Range(executable_skills)
    /\ Range(executable_skills) # graph.nodes

\* C15: when the LP solver reports failure, solve_task_allocation returns
\* the empty assignment and the run goes on: the Driver returns to the loop
\* head with the graph and the completed tasks as they were.
C15_SolverFailureKeepsGraph ==
    [][(pc = "alloc" /\ ~ lp_success') =>
           /\ assignments' = NoAssignment
           /\ graph' = graph
           /\ completed_log' = completed_log
           /\ pc' = "loop" /\ outcome' = "running"]_vars

\* C15 witness: the solver failed in a later round on a matrix with a
\* positive weight
C15_Witness ==
    /\ Solved /\ ~ lp_success
    /\ completed_log # <<>>
    /\ \E r \in DOMAIN weights : \E s \in DOMAIN weights[r] : weights[r][s] > 0

\* C16: on an empty skill list the Builder returns an empty graph and the
\* Driver reports "complete" at once, not an abort.
C16_EmptyListCompletes ==
    (pc = "end" /\ skill_list = <<>>) =>
        /\ graph = EmptyGraph
        /\ outcome = "complete"

\* C17: while the Driver loop runs over an accepted graph, a non-empty
\* graph has a non-empty frontier: the "No executable skills found" branch
\* is never taken.
C17_FrontierNeverEmpty ==
    /\ no_executable = FALSE
    /\ (Scheduling /\ graph.nodes # {}) => FrontierOf(graph) # {}
    /\ pc = "alloc" => executable_skills # <<>>

\* C17 witness: a round has removed skills and what is left still has a
\* precedence edge
C17_Witness ==
    /\ pc = "alloc"
    /\ completed_log # <<>>
    /\ graph.edges # {}

\* C18: once a graph is accepted the Driver changes it by node removal
\* only: after a round the graph is the induced subgraph on the nodes not
\* assigned in that round, every removed node was in the round's frontier,
\* nothing is ever added, and no skill is completed twice.
C18_OnlyNodeRemoval ==
    [][Scheduling =>
         LET removed == graph.nodes \ graph'.nodes IN
         /\ graph'.nodes \subseteq graph.nodes
         /\ graph'.edges =
                {e \in graph.edges : e[1] \in graph'.nodes /\ e[2] \in graph'.nodes}
         /\ pc = "loop" => removed = {}
         /\ pc = "alloc" =>
                /\ removed = Range(assignments')
                /\ removed \subseteq Range(executable_skills)
         /\ \A i \in DOMAIN completed_log' : \A j \in DOMAIN completed_log' :
                i # j => completed_log'[i] \cap completed_log'[j] = {}]_vars

\* C18 witness: a round completed two skills at once and left the skill
\* that waited for one of them
C18_Witness ==
    /\ Solved
    /\ Cardinality(DOMAIN assignments) = 2
    /\ \E e \in accepted.edges :
           e[1] \in Range(assignments) /\ e[2] \in graph.nodes

\* robot r of this run is of a type that performs frontier skill s: an arm
\* robot a pick_and_place skill, a mobile robot a transport skill
Capable(r, s) ==
    \/ robots[r] = "arm_robot" /\ executable_skills[s][1] = "pick_and_place"
    \/ robots[r] = "mobile_robot" /\ executable_skills[s][1] = "transport"

\* C19: the weight matrix has one row per robot and one column per
\* frontier skill, and its entry (r, s) is positive exactly when robot r
\* can perform skill s and 0 otherwise.
C19_WeightsMatchCapability ==
    Solved =>
        /\ DOMAIN weights = 1..Len(robots)
        /\ \A r \in DOMAIN weights :
               /\ DOMAIN weights[r] = 1..Len(executable_skills)
               /\ \A s \in DOMAIN weights[r] :
                      IF Capable(r, s) THEN weights[r][s] > 0
                                       ELSE weights[r][s] = 0

\* C19 witness: a matrix for an arm robot and a mobile robot over a
\* frontier with a pick_and_place and a transport skill
C19_Witness ==
    /\ Solved
    /\ Range(robots) = RobotTypes
    /\ \E s \in DOMAIN executable_skills : \E t \in DOMAIN executable_skills :
           /\ weights[1][s] > 0 /\ weights[1][t] = 0
           /\ weights[2][s] = 0 /\ weights[2][t] > 0

\* C20: whatever the skill-choice oracle answers, generate_skill_list ends
\* after at most |skill_set| calls of the oracle, and its list holds only
\* skills of the skill set, never "done", and no skill twice, each chosen
\* skill having left the candidates.
C20_SkillListBounded ==
    /\ choose_calls <= Cardinality(get_skill_set)
    /\ pc = "skills" => choose_calls < Cardinality(get_skill_set)
    /\ Range(skill_list) \subseteq get_skill_set \ {Done}
    /\ \A i \in DOMAIN skill_list : \A j \in DOMAIN skill_list :
           i # j => skill_list[i] # skill_list[j]
    /\ remaining_skills = get_skill_set \ Range(skill_list)

\* C20 witness: every skill of the set was chosen and the last call, with
\* only "done" left, ended the loop
C20_Witness ==
    /\ pc = "graph"
    /\ choose_calls = Cardinality(get_skill_set)
    /\ Range(skill_list) = get_skill_set \ {Done}

=============================================================================
